---- MODULE Spec2Model ----
(***************************************************************************)
(* Payment-link lifecycle and order reconciliation of the payment backend  *)
(* (server.py, paypal_service.py, models.py).                              *)
(*                                                                         *)
(* The three Mongo collections are sequences of documents in insertion     *)
(* order.  Every request handler is a process; one action is one store     *)
(* operation (the only points where a coroutine is suspended), together    *)
(* with the local code that runs up to it.  The gateway call of a handler  *)
(* is synchronous and is taken together with the store operation that      *)
(* follows it.                                                             *)
(*                                                                         *)
(* The database outlives the server process: the server starts on a store  *)
(* that earlier create_payment_link and create_paypal_order requests have  *)
(* filled (Init), the empty store included.                                *)
(*                                                                         *)
(* Timestamps are only ever compared within one document, so the clock is  *)
(* kept per document: a read of datetime.now() for a write to a document   *)
(* is an instant later than the one the document holds.                    *)
(***************************************************************************)
EXTENDS Integers, Sequences, FiniteSets, TLC

\* ----------------------------------------------------------------- bounds
MaxLinks == 2
MaxOrders == 2
MaxRequests == 4
MaxGroups == 2

\* -------------------------------------------------------------- constants
NoOrder == 0
NoCapture == 0
NoTime == 0
NoLink == 0
\* an order id the gateway never handed out
UnknownOrder == 99

Procs == {1, 2}

EvCompleted == "PAYMENT.CAPTURE.COMPLETED"
EvDenied == "PAYMENT.CAPTURE.DENIED"
EvOther == "CHECKOUT.ORDER.APPROVED"

LinkStatusEnum == {"Pending", "Completed", "Failed", "Expired"}
TxStatusEnum == {"CREATED", "APPROVED", "COMPLETED", "FAILED"}
LinkTerminal == {"Completed", "Failed"}
TxTerminal == {"COMPLETED", "DENIED"}

\* status strings a caller of the status-update endpoint may send
StatusInputs == {"Pending", "Failed", "Expired", "Cancelled"}

\* the exceptions of the gateway's capture call, as str(e)
GwCaptureErrors == {"timeout"}
\* order statuses the gateway can answer a capture with
GwCaptureStatuses == {"COMPLETED", "PAYER_ACTION_REQUIRED"}
GwNotInitialized == "not initialized"

VARIABLES
    payment_links,   \* db.payment_links
    transactions,    \* db.transactions
    webhook_logs,    \* db.webhook_logs
    client,          \* PayPalService.client is not None
    gw_next,         \* next order id the gateway hands out
    gw_captured,     \* orders the gateway has captured
    reqs,            \* the request handlers in flight, one per slot
    started          \* number of requests received so far

vars == <<payment_links, transactions, webhook_logs, client, gw_next,
          gw_captured, reqs, started>>

\* ids a caller can name: those of the stored links and one that matches none
LinkIdInputs == (1..Len(payment_links)) \cup {NoLink}
\* the orders the gateway has created and one it has not
OrderIdInputs == (1..(gw_next - 1)) \cup {UnknownOrder}
\* the provider event id of the first delivery (a redelivery) and a fresh one
EventIdInputs == {1, Len(webhook_logs) + 1}

\* ------------------------------------------------------------- documents
\* amount and currency are strings; an amount is kept as the sequence of
\* its characters
PaymentLink(id, amount, currency, t) ==
    [id |-> id, amount |-> amount, currency |-> currency,
     status |-> "Pending", paypal_order_id |-> NoOrder, updated_at |-> t]

\* variant: the transaction records the link's id as its external order id
TransactionKeyedByLink(id, payment_id, order_id, amount, currency) ==
    [id |-> id, payment_link_id |-> payment_id, paypal_order_id |-> payment_id,
     paypal_capture_id |-> NoCapture, amount |-> amount,
     currency |-> currency, status |-> "CREATED",
     completed_at |-> NoTime, metadata |-> ""]

Transaction(id, payment_id, order_id, amount, currency) ==
    [id |-> id, payment_link_id |-> payment_id, paypal_order_id |-> order_id,
     paypal_capture_id |-> NoCapture, amount |-> amount,
     currency |-> currency, status |-> "CREATED",
     completed_at |-> NoTime, metadata |-> ""]

\* the fields of the audit record that tell one delivery from another and
\* that the handler writes later; event_type and payload are not kept
WebhookLog(id, event_id) ==
    [id |-> id, event_id |-> event_id, verified |-> TRUE,
     processed |-> FALSE, error |-> ""]

\* ------------------------------------------------------ store operations
\* find_one / update_one act on the first document matching the filter
Matching(coll, field, value) ==
    {i \in 1..Len(coll) : coll[i][field] = value}

Min(S) == CHOOSE x \in S : \A y \in S : x <= y

FindOne(coll, field, value) ==
    IF Matching(coll, field, value) = {} THEN 0
    ELSE Min(Matching(coll, field, value))

\* $set of the fields of upd on the first match; nothing without a match
UpdateOne(coll, field, value, upd) ==
    LET i == FindOne(coll, field, value) IN
    IF i = 0 THEN coll
    ELSE [coll EXCEPT ![i] =
            [f \in DOMAIN coll[i] |->
                IF f \in DOMAIN upd THEN upd[f] ELSE coll[i][f]]]

\* variant: the inserted document replaces the collection
InsertOneReplacing(coll, doc) == <<doc>>

InsertOne(coll, doc) == Append(coll, doc)

\* datetime.now(timezone.utc) for an update_one of the document matching
\* the filter: later than the instant the document holds in field stamp
Now(coll, field, value, stamp) ==
    LET i == FindOne(coll, field, value) IN
    IF i = 0 THEN NoTime + 1 ELSE coll[i][stamp] + 1

\* -------------------------------------------------------------- requests
\* no body sent to the gateway, no result received from it
NoRequestBody == [currency_code |-> "", value |-> <<>>]
NoOrderResult == [amount |-> <<>>, currency |-> ""]

Idle ==
    [kind |-> "idle", pc |-> "idle", payment_id |-> NoLink,
     order_id |-> NoOrder, status |-> "", event_type |-> "", gw |-> "",
     request_body |-> NoRequestBody, order_result |-> NoOrderResult,
     found |-> NoLink, found_status |-> "", log_id |-> 0,
     code |-> 0, body |-> ""]

Free(p) == reqs[p].pc \in {"idle", "done"}

\* a request is received by the first free worker slot
CanStart(p) ==
    /\ Free(p)
    /\ \A q \in Procs : Free(q) => p <= q
    /\ started < MaxRequests

\* the handler of slot p starts as r; responses already returned are gone
Begin(p, r) ==
    [q \in Procs |->
        IF q = p THEN r
        ELSE IF reqs[q].pc = "done" THEN Idle ELSE reqs[q]]

\* the handler returns (or raises): its locals are dropped
Done(r, code, body) ==
    [r EXCEPT !.pc = "done", !.code = code, !.body = body,
              !.found = NoLink, !.found_status = "", !.gw = "",
              !.request_body = NoRequestBody,
              !.order_result = NoOrderResult]

\* ---------------------------------- POST /paypal/create-order (366-423)
\* str.replace(old, new) and str.replace(old, '') on a sequence of characters
Replace(str, old, new) ==
    [k \in 1..Len(str) |-> IF str[k] = old THEN new ELSE str[k]]

Remove(str, old) == SelectSeq(str, LAMBDA c : c # old)

\* amount.replace(',', '.').replace(' ', '')  (paypal_service.py:65)
amount_normalized(amount) == Remove(Replace(amount, ",", "."), " ")

\* "USD" if currency == "Rs" else currency  (paypal_service.py:75)
currency_code(currency) == IF currency = "Rs" THEN "USD" ELSE currency

\* the purchase unit amount of the body PayPalService.create_order sends
CreateOrderRequestBody(amount, currency) ==
    [currency_code |-> currency_code(currency),
     value |-> amount_normalized(amount)]

\* the amount and currency of the dictionary PayPalService.create_order
\* returns
CreateOrderResult(amount, currency) ==
    [amount |-> amount_normalized(amount), currency |-> currency]

CreateOrderLinkUpdateWithoutRef(order_id, t) == [updated_at |-> t]

CreateOrderLinkUpdate(order_id, t) ==
    [paypal_order_id |-> order_id, updated_at |-> t]

\* ------------------------------------------------------------------ init
\* PaymentLinkCreate.amount and .currency of the links of the lifecycle: no
\* handler but create_paypal_order reads them, and none branches on them
PaymentData ==
    [amount |-> <<"1", " ", "0", "0", "0", ",", "0", "0">>, currency |-> "Rs"]

\* the store left by n create_payment_link requests followed by one
\* create_paypal_order request for each link named in script, in order
RECURSIVE SeedStore(_, _)
SeedStore(n, script) ==
    IF script = <<>>
    THEN [payment_links |-> [i \in 1..n |->
                              PaymentLink(i, PaymentData.amount,
                                          PaymentData.currency, NoTime + 1)],
          transactions |-> <<>>]
    ELSE LET before == SeedStore(n, SubSeq(script, 1, Len(script) - 1))
             order_id == Len(script)
             payment_id == script[order_id]
         IN [payment_links |->
                UpdateOne(before.payment_links, "id", payment_id,
                          CreateOrderLinkUpdate(order_id,
                              Now(before.payment_links, "id", payment_id,
                                  "updated_at"))),
             transactions |->
                InsertOne(before.transactions,
                          Transaction(order_id, payment_id, order_id,
                              CreateOrderResult(PaymentData.amount,
                                  PaymentData.currency).amount,
                              CreateOrderResult(PaymentData.amount,
                                  PaymentData.currency).currency))]

\* the requests of the seed count among the MaxRequests of a run
SeedScripts(n) ==
    UNION {[1..m -> 1..n] : m \in 1..MaxOrders} \cap
    UNION {[1..m -> 1..n] : m \in 1..(MaxRequests - n)}

Init ==
    /\ \E n \in 1..MaxLinks : \E script \in SeedScripts(n) :
          /\ payment_links = SeedStore(n, script).payment_links
          /\ transactions = SeedStore(n, script).transactions
          /\ gw_next = Len(script) + 1
          /\ started = n + Len(script)
    /\ webhook_logs = <<>>
    /\ client = TRUE
    /\ gw_captured = {}
    /\ reqs = [p \in Procs |-> Idle]

\* ------------------------------------------- POST /payment-links (212-247)
create_payment_link(p, authorized) ==
    /\ CanStart(p)
    /\ started' = started + 1
    /\ LET r == [Idle EXCEPT !.kind = "create_payment_link"] IN
       IF ~authorized
       THEN /\ reqs' = Begin(p, Done(r, 401, "Unauthorized"))
            /\ UNCHANGED payment_links
       ELSE /\ Len(payment_links) < MaxLinks
            /\ payment_links' =
                 InsertOne(payment_links,
                           PaymentLink(Len(payment_links) + 1,
                                       PaymentData.amount,
                                       PaymentData.currency, NoTime + 1))
            /\ reqs' = Begin(p,
                 Done([r EXCEPT !.payment_id = Len(payment_links) + 1],
                      200, "created"))
    /\ UNCHANGED <<transactions, webhook_logs, client, gw_next, gw_captured>>

\* --------------------------- PUT /payment-links/{id}/status (277-300)
StatusUpdateDataWithoutOrder(status, order_id, t) ==
    [status |-> status, updated_at |-> t]

StatusUpdateData(status, order_id, t) ==
    IF order_id # NoOrder
    THEN [status |-> status, updated_at |-> t, paypal_order_id |-> order_id]
    ELSE [status |-> status, updated_at |-> t]

update_payment_link_status(p, payment_id, status, order_id) ==
    /\ CanStart(p)
    /\ started' = started + 1
    /\ payment_links' =
         UpdateOne(payment_links, "id", payment_id,
                   StatusUpdateData(status, order_id,
                       Now(payment_links, "id", payment_id, "updated_at")))
    /\ LET r == [Idle EXCEPT !.kind = "update_payment_link_status",
                             !.payment_id = payment_id, !.status = status,
                             !.order_id = order_id]
           modified_count ==
               IF FindOne(payment_links, "id", payment_id) = 0 THEN 0 ELSE 1
       IN reqs' = Begin(p,
                    IF modified_count = 0
                    THEN Done(r, 404, "Payment link not found")
                    ELSE Done(r, 200, "Status updated successfully"))
    /\ UNCHANGED <<transactions, webhook_logs, client, gw_next, gw_captured>>

\* variant: the order is created whatever the status of the link
create_paypal_order_any_status(p, payment_id, gw_ok) ==
    /\ CanStart(p)
    /\ started' = started + 1
    /\ LET r == [Idle EXCEPT !.kind = "create_paypal_order",
                             !.payment_id = payment_id]
           i == FindOne(payment_links, "id", payment_id)
       IN
       IF i = 0
       THEN /\ reqs' = Begin(p, Done(r, 404, "Payment link not found"))
            /\ UNCHANGED gw_next
       ELSE IF ~client \/ ~gw_ok
       THEN /\ reqs' = Begin(p, Done(r, 500, "Failed to create PayPal order"))
            /\ UNCHANGED gw_next
       ELSE /\ gw_next <= MaxOrders
            /\ gw_next' = gw_next + 1
            /\ reqs' = Begin(p,
                 [r EXCEPT !.order_id = gw_next,
                           !.request_body =
                               CreateOrderRequestBody(payment_links[i].amount,
                                   payment_links[i].currency),
                           !.order_result =
                               CreateOrderResult(payment_links[i].amount,
                                   payment_links[i].currency),
                           !.pc = "co_link"])
    /\ UNCHANGED <<payment_links, transactions, webhook_logs, client,
                   gw_captured>>

\* variant: a failure of the gateway is answered as a success
create_paypal_order_swallows(p, payment_id, gw_ok) ==
    /\ CanStart(p)
    /\ started' = started + 1
    /\ LET r == [Idle EXCEPT !.kind = "create_paypal_order",
                             !.payment_id = payment_id]
           i == FindOne(payment_links, "id", payment_id)
       IN
       IF i = 0
       THEN /\ reqs' = Begin(p, Done(r, 404, "Payment link not found"))
            /\ UNCHANGED gw_next
       ELSE IF payment_links[i].status # "Pending"
       THEN /\ reqs' = Begin(p,
                 Done(r, 400, "Payment link is not in pending status"))
            /\ UNCHANGED gw_next
       ELSE IF ~client \/ ~gw_ok
       THEN /\ reqs' = Begin(p, Done(r, 200, "CREATED"))
            /\ UNCHANGED gw_next
       ELSE /\ gw_next <= MaxOrders
            /\ gw_next' = gw_next + 1
            /\ reqs' = Begin(p,
                 [r EXCEPT !.order_id = gw_next,
                           !.request_body =
                               CreateOrderRequestBody(payment_links[i].amount,
                                   payment_links[i].currency),
                           !.order_result =
                               CreateOrderResult(payment_links[i].amount,
                                   payment_links[i].currency),
                           !.pc = "co_link"])
    /\ UNCHANGED <<payment_links, transactions, webhook_logs, client,
                   gw_captured>>

\* find_one, the status check and PayPalService.create_order
create_paypal_order(p, payment_id, gw_ok) ==
    /\ CanStart(p)
    /\ started' = started + 1
    /\ LET r == [Idle EXCEPT !.kind = "create_paypal_order",
                             !.payment_id = payment_id]
           i == FindOne(payment_links, "id", payment_id)
       IN
       IF i = 0
       THEN /\ reqs' = Begin(p, Done(r, 404, "Payment link not found"))
            /\ UNCHANGED gw_next
       ELSE IF payment_links[i].status # "Pending"
       THEN /\ reqs' = Begin(p,
                 Done(r, 400, "Payment link is not in pending status"))
            /\ UNCHANGED gw_next
       ELSE IF ~client \/ ~gw_ok
       THEN /\ reqs' = Begin(p, Done(r, 500, "Failed to create PayPal order"))
            /\ UNCHANGED gw_next
       ELSE /\ gw_next <= MaxOrders
            /\ gw_next' = gw_next + 1
            /\ reqs' = Begin(p,
                 [r EXCEPT !.order_id = gw_next,
                           !.request_body =
                               CreateOrderRequestBody(payment_links[i].amount,
                                   payment_links[i].currency),
                           !.order_result =
                               CreateOrderResult(payment_links[i].amount,
                                   payment_links[i].currency),
                           !.pc = "co_link"])
    /\ UNCHANGED <<payment_links, transactions, webhook_logs, client,
                   gw_captured>>

\* db.payment_links.update_one({"id": payment_id}, paypal_order_id)
create_order_link(p) ==
    /\ reqs[p].pc = "co_link"
    /\ payment_links' =
         UpdateOne(payment_links, "id", reqs[p].payment_id,
                   CreateOrderLinkUpdate(reqs[p].order_id,
                       Now(payment_links, "id", reqs[p].payment_id,
                           "updated_at")))
    /\ reqs' = [reqs EXCEPT ![p].pc = "co_insert"]
    /\ UNCHANGED <<transactions, webhook_logs, client, gw_next, gw_captured,
                   started>>

\* db.transactions.insert_one(doc) and return
create_order_insert(p) ==
    /\ reqs[p].pc = "co_insert"
    /\ transactions' =
         InsertOne(transactions,
                   Transaction(Len(transactions) + 1, reqs[p].payment_id,
                               reqs[p].order_id, reqs[p].order_result.amount,
                               reqs[p].order_result.currency))
    /\ reqs' = [reqs EXCEPT ![p] = Done(@, 200, "CREATED")]
    /\ UNCHANGED <<payment_links, webhook_logs, client, gw_next, gw_captured,
                   started>>

\* --------------------------------- POST /paypal/capture-order (429-482)
\* variant: the capture result is applied without its capture id
CaptureTxUpdateNoCaptureId(status, capture_id, t) ==
    [status |-> status, completed_at |-> t]

CaptureTxUpdate(status, capture_id, t) ==
    [status |-> status, paypal_capture_id |-> capture_id, completed_at |-> t]

\* variant: the capture touches the link without completing it
CaptureLinkUpdateKeepsStatus(t) == [updated_at |-> t]

CaptureLinkUpdate(t) == [status |-> "Completed", updated_at |-> t]

\* variant: the failure is recorded without its cause
CaptureFailedUpdateNoCause(error) == [status |-> "FAILED", metadata |-> ""]

CaptureFailedUpdate(error) == [status |-> "FAILED", metadata |-> error]

\* the gateway captures an order it created and has not captured yet
GwCapturable(order_id) ==
    client /\ order_id \in 1..(gw_next - 1) /\ order_id \notin gw_captured

\* PayPalService.capture_order and the first transactions.update_one:
\* of the try block when the gateway answers, of the except block when the
\* gateway call raises
capture_paypal_order(p, order_id, payment_id, outcome) ==
    /\ CanStart(p)
    /\ started' = started + 1
    /\ outcome \in GwCaptureStatuses => GwCapturable(order_id)
    /\ LET r == [Idle EXCEPT !.kind = "capture_paypal_order",
                             !.order_id = order_id, !.payment_id = payment_id]
           error == IF client THEN outcome ELSE GwNotInitialized
       IN
       IF outcome \in GwCaptureStatuses
       THEN /\ gw_captured' = IF outcome = "COMPLETED"
                               THEN gw_captured \cup {order_id}
                               ELSE gw_captured
            /\ transactions' =
                 UpdateOne(transactions, "paypal_order_id", order_id,
                           CaptureTxUpdate(outcome, order_id,
                               Now(transactions, "paypal_order_id", order_id,
                                   "completed_at")))
            /\ reqs' = Begin(p, [r EXCEPT !.gw = outcome, !.pc = "cap_link"])
       ELSE /\ transactions' =
                 UpdateOne(transactions, "paypal_order_id", order_id,
                           CaptureFailedUpdate(error))
            /\ reqs' = Begin(p, Done(r, 500, error))
            /\ UNCHANGED gw_captured
    /\ UNCHANGED <<payment_links, webhook_logs, client, gw_next>>

\* db.payment_links.update_one({"id": data.payment_id}, Completed), return
capture_link(p) ==
    /\ reqs[p].pc = "cap_link"
    /\ payment_links' =
         UpdateOne(payment_links, "id", reqs[p].payment_id,
                   CaptureLinkUpdate(Now(payment_links, "id",
                                         reqs[p].payment_id, "updated_at")))
    /\ reqs' = [reqs EXCEPT ![p] = Done(@, 200, "COMPLETED")]
    /\ UNCHANGED <<transactions, webhook_logs, client, gw_next, gw_captured,
                   started>>

\* ------------------------------------- POST /webhooks/paypal (499-579)
\* variant: every delivery that carries an order id is reconciled
ReconcilesAnyType(event_type, order_id) == order_id # NoOrder

\* the order id of resource.supplementary_data.related_ids, when the event
\* type is one the handler reconciles
Reconciles(event_type, order_id) ==
    event_type \in {EvCompleted, EvDenied} /\ order_id # NoOrder

\* variant: a completion delivered for a transaction that already has a
\* completion time is recorded as a failure
WebhookTxUpdateRedelivered(event_type, t) ==
    IF event_type = EvCompleted
    THEN [status |-> IF t = NoTime + 1 THEN "COMPLETED" ELSE "FAILED",
          completed_at |-> t]
    ELSE [status |-> "DENIED"]

WebhookTxUpdate(event_type, t) ==
    IF event_type = EvCompleted
    THEN [status |-> "COMPLETED", completed_at |-> t]
    ELSE [status |-> "DENIED"]

\* variant: the link's status is written without a new updated_at
WebhookLinkUpdateStale(event_type, t) ==
    IF event_type = EvCompleted
    THEN [status |-> "Completed"]
    ELSE [status |-> "Failed"]

WebhookLinkUpdate(event_type, t) ==
    IF event_type = EvCompleted
    THEN [status |-> "Completed", updated_at |-> t]
    ELSE [status |-> "Failed", updated_at |-> t]

\* variant: the WebhookLog is built but not inserted before reconciliation
paypal_webhook_unlogged(p, parses, event_type, event_id, order_id) ==
    /\ CanStart(p)
    /\ started' = started + 1
    /\ LET r == [Idle EXCEPT !.kind = "paypal_webhook"] IN
       IF ~parses
       THEN reqs' = Begin(p, Done(r, 200, "error"))
       ELSE reqs' = Begin(p,
                 [r EXCEPT !.event_type = event_type,
                           !.order_id = order_id,
                           !.log_id = Len(webhook_logs) + 1,
                           !.pc = IF Reconciles(event_type, order_id)
                                  THEN "wh_tx" ELSE "wh_mark"])
    /\ UNCHANGED <<payment_links, transactions, webhook_logs, client,
                   gw_next, gw_captured>>

\* json.loads, WebhookLog(...), insert_one
paypal_webhook(p, parses, event_type, event_id, order_id) ==
    /\ CanStart(p)
    /\ started' = started + 1
    /\ LET r == [Idle EXCEPT !.kind = "paypal_webhook"] IN
       IF ~parses
       THEN /\ reqs' = Begin(p, Done(r, 200, "error"))
            /\ UNCHANGED webhook_logs
       ELSE /\ webhook_logs' =
                 InsertOne(webhook_logs,
                           WebhookLog(Len(webhook_logs) + 1, event_id))
            /\ reqs' = Begin(p,
                 [r EXCEPT !.event_type = event_type,
                           !.order_id = order_id,
                           !.log_id = Len(webhook_logs) + 1,
                           !.pc = IF Reconciles(event_type, order_id)
                                  THEN "wh_tx" ELSE "wh_mark"])
    /\ UNCHANGED <<payment_links, transactions, client, gw_next, gw_captured>>

\* db.transactions.update_one({"paypal_order_id": order_id}, ...)
webhook_tx(p) ==
    /\ reqs[p].pc = "wh_tx"
    /\ transactions' =
         UpdateOne(transactions, "paypal_order_id", reqs[p].order_id,
                   WebhookTxUpdate(reqs[p].event_type,
                       Now(transactions, "paypal_order_id", reqs[p].order_id,
                           "completed_at")))
    /\ reqs' = [reqs EXCEPT ![p].pc = "wh_find"]
    /\ UNCHANGED <<payment_links, webhook_logs, client, gw_next, gw_captured,
                   started>>

\* db.payment_links.find_one({"paypal_order_id": order_id})
webhook_find(p) ==
    /\ reqs[p].pc = "wh_find"
    /\ LET i == FindOne(payment_links, "paypal_order_id", reqs[p].order_id) IN
       reqs' = [reqs EXCEPT ![p] =
                 IF i = 0 THEN [@ EXCEPT !.pc = "wh_mark"]
                 ELSE [@ EXCEPT !.pc = "wh_link",
                                !.found = payment_links[i].id,
                                !.found_status = payment_links[i].status]]
    /\ UNCHANGED <<payment_links, transactions, webhook_logs, client,
                   gw_next, gw_captured, started>>

\* db.payment_links.update_one({"id": payment_link['id']}, ...)
webhook_link(p) ==
    /\ reqs[p].pc = "wh_link"
    /\ payment_links' =
         UpdateOne(payment_links, "id", reqs[p].found,
                   WebhookLinkUpdate(reqs[p].event_type,
                       Now(payment_links, "id", reqs[p].found, "updated_at")))
    /\ reqs' = [reqs EXCEPT ![p].pc = "wh_mark"]
    /\ UNCHANGED <<transactions, webhook_logs, client, gw_next, gw_captured,
                   started>>

\* db.webhook_logs.update_one({"id": webhook_log.id}, processed) and return
webhook_mark(p) ==
    /\ reqs[p].pc = "wh_mark"
    /\ webhook_logs' =
         UpdateOne(webhook_logs, "id", reqs[p].log_id, [processed |-> TRUE])
    /\ reqs' = [reqs EXCEPT ![p] = Done(@, 200, "success")]
    /\ UNCHANGED <<payment_links, transactions, client, gw_next,
                   gw_captured, started>>

\* variant: the except block raises HTTPException(500) instead of returning
webhook_except_raises(p) ==
    /\ reqs[p].pc \in {"wh_tx", "wh_find", "wh_link", "wh_mark"}
    /\ reqs' = [reqs EXCEPT ![p] = Done(@, 500, "error")]
    /\ UNCHANGED <<payment_links, transactions, webhook_logs, client,
                   gw_next, gw_captured, started>>

\* a store operation of the handler raises: except Exception (577-579)
webhook_except(p) ==
    /\ reqs[p].pc \in {"wh_tx", "wh_find", "wh_link", "wh_mark"}
    /\ reqs' = [reqs EXCEPT ![p] = Done(@, 200, "error")]
    /\ UNCHANGED <<payment_links, transactions, webhook_logs, client,
                   gw_next, gw_captured, started>>

\* ------------------------------------------------------------------ next
CaptureOutcomes == {"COMPLETED"} \cup GwCaptureErrors

\* The inputs of a request are drawn from the values that can make a
\* difference to its handler; an input the handler does not read on the
\* path taken is fixed.
StatusRequests ==
    {<<NoLink, "Pending", NoOrder>>}
    \cup ((1..Len(payment_links)) \X StatusInputs
                                   \X ((1..(gw_next - 1)) \cup {NoOrder}))

CreateOrderRequests ==
    {<<payment_id, gw_ok>> \in LinkIdInputs \X BOOLEAN :
        ~gw_ok => /\ payment_id # NoLink
                  /\ payment_links[payment_id].status = "Pending"
                  /\ client}

CaptureRequests ==
    {<<order_id, payment_id, outcome>> \in
        OrderIdInputs \X LinkIdInputs \X CaptureOutcomes :
            outcome # "COMPLETED" => payment_id = NoLink}

WebhookRequests ==
    {<<FALSE, EvOther, 1, NoOrder>>}
    \cup {<<TRUE, event_type, event_id, order_id>> :
            event_type \in {EvCompleted, EvDenied},
            event_id \in EventIdInputs,
            order_id \in OrderIdInputs \cup {NoOrder}}
    \cup {<<TRUE, EvOther, event_id, order_id>> :
            event_id \in EventIdInputs,
            order_id \in (1..(gw_next - 1)) \cup {NoOrder}}

Next ==
    \E p \in Procs :
        \/ \E authorized \in BOOLEAN : create_payment_link(p, authorized)
        \/ \E i \in StatusRequests :
                update_payment_link_status(p, i[1], i[2], i[3])
        \/ \E i \in CreateOrderRequests : create_paypal_order(p, i[1], i[2])
        \/ create_order_link(p)
        \/ create_order_insert(p)
        \/ \E i \in CaptureRequests :
                capture_paypal_order(p, i[1], i[2], i[3])
        \/ capture_link(p)
        \/ \E i \in WebhookRequests :
                paypal_webhook(p, i[1], i[2], i[3], i[4])
        \/ webhook_tx(p)
        \/ webhook_find(p)
        \/ webhook_link(p)
        \/ webhook_mark(p)
        \/ webhook_except(p)

Spec == Init /\ [][Next]_vars

\* ------------------------------------------- create order on its own
\* The amounts a PaymentLink may carry: one leading digit, up to MaxGroups
\* groups of three digits set off by nothing, a space, a comma or a dot, and
\* optionally a two-digit fraction after a dot or a comma that is not the
\* character used between the groups.
ThousandsSeparators == {<<>>, <<" ">>, <<",">>, <<".">>}
DecimalSeparators == {<<".">>, <<",">>}
Fractions == {<<>>} \cup {d \o <<"5", "6">> : d \in DecimalSeparators}

RECURSIVE Groups(_, _)
Groups(sep, k) ==
    IF k = 0 THEN <<>> ELSE sep \o <<"2", "3", "4">> \o Groups(sep, k - 1)

AmountInputs ==
    {<<"1">> \o Groups(shape[1], shape[2]) \o shape[3] :
        shape \in {sh \in ThousandsSeparators \X (0..MaxGroups) \X Fractions :
                     \/ sh[3] = <<>>
                     \/ sh[2] = 0
                     \/ sh[1] = <<>>
                     \/ <<sh[3][1]>> # sh[1]}}

CurrencyInputs == {"Rs", "USD", "EUR"}

\* the store holds one Pending link, left by one create_payment_link request
InitCreateOrder ==
    /\ \E amount \in AmountInputs : \E currency \in CurrencyInputs :
          payment_links = <<PaymentLink(1, amount, currency, NoTime + 1)>>
    /\ transactions = <<>>
    /\ webhook_logs = <<>>
    /\ client = TRUE
    /\ gw_next = 1
    /\ gw_captured = {}
    /\ reqs = [p \in Procs |-> Idle]
    /\ started = 1

NextCreateOrder ==
    \E p \in Procs :
        \/ \E i \in CreateOrderRequests : create_paypal_order(p, i[1], i[2])
        \/ create_order_link(p)
        \/ create_order_insert(p)

SpecCreateOrder == InitCreateOrder /\ [][NextCreateOrder]_vars

\* ---------------------------------------------------------------- claims
Links == 1..Len(payment_links)
Txs == 1..Len(transactions)
Logs == 1..Len(webhook_logs)

\* the step is the payment_links write of a capture or of a webhook
CaptureLinkStep(p) == reqs[p].pc = "cap_link" /\ reqs'[p].pc = "done"
WebhookLinkStep(p) == reqs[p].pc = "wh_link" /\ reqs'[p].pc = "wh_mark"
\* the step is the transactions write of a webhook
WebhookTxStep(p) == reqs[p].pc = "wh_tx" /\ reqs'[p].pc = "wh_find"
\* the step is a whole status-update request served by slot p
StatusUpdateStep(p) ==
    /\ CanStart(p)
    /\ started' = started + 1
    /\ reqs'[p].kind = "update_payment_link_status"

\* C1: once a PaymentLink's stored status is Completed or Failed, no later
\* capture result or webhook event changes that status.
C1_TerminalLinkKeptBySignals ==
    [][\A i \in Links :
          (/\ payment_links[i].status \in LinkTerminal
           /\ \E p \in Procs : CaptureLinkStep(p) \/ WebhookLinkStep(p))
          => payment_links'[i].status = payment_links[i].status]_vars

\* C2: the status update of an existing PaymentLink that is already
\* Completed or Failed returns success and leaves the stored status as it
\* was, for every requested status.
C2_SetStatusOnTerminalIsNoOp ==
    [][\A p \in Procs : \A i \in Links :
          (/\ StatusUpdateStep(p)
           /\ reqs'[p].payment_id = payment_links[i].id
           /\ payment_links[i].status \in LinkTerminal)
          => /\ reqs'[p].code = 200
             /\ payment_links'[i].status = payment_links[i].status]_vars

\* a successful capture of order_id for the link that owns its transaction
\* and a DENIED webhook for order_id have run concurrently and have both
\* returned
RaceFinished(i, order_id) ==
    /\ transactions[i].paypal_order_id = order_id
    /\ \E p, q \in Procs :
          /\ reqs[p].kind = "capture_paypal_order"
          /\ reqs[p].pc = "done" /\ reqs[p].code = 200
          /\ reqs[p].order_id = order_id
          /\ reqs[p].payment_id = transactions[i].payment_link_id
          /\ reqs[q].kind = "paypal_webhook"
          /\ reqs[q].pc = "done" /\ reqs[q].body = "success"
          /\ reqs[q].event_type = EvDenied
          /\ reqs[q].order_id = order_id

LinkOf(i) == payment_links[transactions[i].payment_link_id]

\* C3: after a successful capture and a DENIED webhook for the same order
\* have run concurrently, the (PaymentLink status, Transaction status) pair
\* is (Completed, COMPLETED) or (Failed, DENIED), never a mix.
C3_RaceLeavesOneOutcome ==
    \A i \in Txs :
        RaceFinished(i, transactions[i].paypal_order_id)
        => <<LinkOf(i).status, transactions[i].status>>
              \in {<<"Completed", "COMPLETED">>, <<"Failed", "DENIED">>}

\* C4: a Transaction whose status is COMPLETED or DENIED never changes
\* status afterwards, whatever webhook or capture attempt comes later.
C4_TerminalTransactionKept ==
    [][\A i \in Txs :
          transactions[i].status \in TxTerminal
          => transactions'[i].status = transactions[i].status]_vars

\* a capture of the same order is in flight or has just returned in the
\* other slot
RacingCapture(p) ==
    \E q \in Procs \ {p} :
        /\ reqs[q].kind = "capture_paypal_order"
        /\ reqs[q].order_id = reqs[p].order_id

\* C5: a status write is atomic with the check it rests on: when a webhook
\* racing with a capture of the same order writes the status of the
\* PaymentLink it has read, the stored status is still the one it read (no
\* write of the capture has come in between: no lost update).
C5_NoWriteOnStaleRead ==
    [][\A p \in Procs :
          (WebhookLinkStep(p) /\ RacingCapture(p))
          => payment_links[reqs[p].found].status = reqs[p].found_status]_vars

\* the handler run from receipt to return with no other request in between
\* and no store failure: the payment_links and transactions it leaves
WebhookRun(links, txs, event_type, order_id) ==
    IF ~Reconciles(event_type, order_id)
    THEN [payment_links |-> links, transactions |-> txs]
    ELSE LET i == FindOne(links, "paypal_order_id", order_id) IN
         [transactions |->
             UpdateOne(txs, "paypal_order_id", order_id,
                       WebhookTxUpdate(event_type,
                           Now(txs, "paypal_order_id", order_id,
                               "completed_at"))),
          payment_links |->
             IF i = 0 THEN links
             ELSE UpdateOne(links, "id", links[i].id,
                            WebhookLinkUpdate(event_type,
                                Now(links, "id", links[i].id, "updated_at")))]

StatusesOf(st) ==
    <<[i \in 1..Len(st.payment_links) |-> st.payment_links[i].status],
      [i \in 1..Len(st.transactions) |-> st.transactions[i].status]>>

\* C6: applying the same PAYMENT.CAPTURE.COMPLETED webhook twice to an
\* order leaves the same PaymentLink and Transaction statuses as applying
\* it once.
C6_CompletedWebhookIdempotent ==
    \A order_id \in OrderIdInputs :
        LET once == WebhookRun(payment_links, transactions, EvCompleted,
                               order_id)
            twice == WebhookRun(once.payment_links, once.transactions,
                                EvCompleted, order_id)
        IN StatusesOf(twice) = StatusesOf(once)

\* the same COMPLETED event has been delivered and processed twice for an
\* order with a Transaction and a PaymentLink: both deliveries are logged
\* under one event id, the transaction was completed twice and never
\* captured
C6_Witness ==
    \E j, k \in Logs : \E i \in Txs : \E p \in Procs :
        /\ j < k
        /\ webhook_logs[j].event_id = webhook_logs[k].event_id
        /\ webhook_logs[j].processed /\ webhook_logs[k].processed
        /\ Len(webhook_logs) = 2
        /\ reqs[p].kind = "paypal_webhook" /\ reqs[p].pc = "done"
        /\ reqs[p].log_id = k /\ reqs[p].body = "success"
        /\ reqs[p].event_type = EvCompleted
        /\ reqs[p].order_id = transactions[i].paypal_order_id
        /\ transactions[i].status = "COMPLETED"
        /\ transactions[i].paypal_capture_id = NoCapture
        /\ transactions[i].completed_at = NoTime + 2
        /\ LinkOf(i).status = "Completed"
        /\ LinkOf(i).paypal_order_id = transactions[i].paypal_order_id

\* the event of log j was received and processed before log k was stored
AlreadyProcessed(k) ==
    \E j \in Logs :
        /\ j < k
        /\ webhook_logs[j].event_id = webhook_logs[k].event_id
        /\ webhook_logs[j].processed

\* C7: a webhook whose event id was already processed performs no write to
\* any Transaction or PaymentLink.
C7_DuplicateEventWritesNothing ==
    [][\A p \in Procs :
          (/\ WebhookTxStep(p) \/ WebhookLinkStep(p)
           /\ AlreadyProcessed(reqs[p].log_id))
          => UNCHANGED <<payment_links, transactions>>]_vars

\* C8: whenever a webhook handler writes a Transaction or a PaymentLink,
\* the WebhookLog of its event is already in the store.
C8_LogStoredBeforeSideEffects ==
    [][\A p \in Procs :
          (WebhookTxStep(p) \/ WebhookLinkStep(p))
          => FindOne(webhook_logs, "id", reqs[p].log_id) # 0]_vars

\* a webhook has changed a Transaction and its log is in the store
C8_Witness ==
    \E p \in Procs : \E i \in Txs :
        /\ reqs[p].pc = "wh_find"
        /\ transactions[i].paypal_order_id = reqs[p].order_id
        /\ transactions[i].status \in TxTerminal
        /\ FindOne(webhook_logs, "id", reqs[p].log_id) # 0
        /\ ~webhook_logs[reqs[p].log_id].processed

\* C9: the WebhookLog of every webhook whose handler has returned is marked
\* processed, whatever the outcome of reconciliation, an internal error
\* included.
C9_StoredEventMarkedProcessed ==
    \A p \in Procs :
        (/\ reqs[p].kind = "paypal_webhook"
         /\ reqs[p].pc = "done"
         /\ reqs[p].log_id \in Logs)
        => webhook_logs[reqs[p].log_id].processed

\* C10: the webhook endpoint answers every delivery with HTTP 200, also
\* when the payload does not parse or a store operation fails.
C10_WebhookAlwaysAcknowledged ==
    \A p \in Procs :
        (reqs[p].kind = "paypal_webhook" /\ reqs[p].pc = "done")
        => reqs[p].code = 200

\* a webhook has returned after an internal error, one that does not parse
\* and one whose store operation failed
C10_Witness ==
    \E p \in Procs :
        /\ reqs[p].kind = "paypal_webhook"
        /\ reqs[p].pc = "done"
        /\ reqs[p].body = "error"
        /\ reqs[p].code = 200
        /\ reqs[p].log_id \in Logs

\* the step is a whole webhook request served by slot p whose body does not
\* parse: the only webhook that returns in the step that receives it
MalformedWebhookStep(p) ==
    /\ CanStart(p)
    /\ started' = started + 1
    /\ reqs'[p].kind = "paypal_webhook"
    /\ reqs'[p].pc = "done"

\* C11: a webhook payload that cannot be parsed still leaves a stored
\* WebhookLog with processed = false and an error note, changes no
\* Transaction and no PaymentLink, and is acknowledged with success.
C11_MalformedPayloadStored ==
    [][\A p \in Procs :
          MalformedWebhookStep(p)
          => /\ Len(webhook_logs') = Len(webhook_logs) + 1
             /\ ~webhook_logs'[Len(webhook_logs')].processed
             /\ webhook_logs'[Len(webhook_logs')].error # ""
             /\ UNCHANGED <<payment_links, transactions>>
             /\ reqs'[p].code = 200]_vars

\* the step is a whole capture request served by slot p whose gateway call
\* raises: the only capture that returns in the step that receives it
FailedCaptureStep(p) ==
    /\ CanStart(p)
    /\ started' = started + 1
    /\ reqs'[p].kind = "capture_paypal_order"
    /\ reqs'[p].pc = "done"

\* C12: when the gateway's capture fails, the Transaction of that order is
\* set to FAILED with the error cause in its metadata, the caller gets an
\* error, and no PaymentLink changes in any field.
C12_FailedCaptureRecorded ==
    [][\A p \in Procs :
          FailedCaptureStep(p)
          => /\ reqs'[p].code = 500
             /\ reqs'[p].body \in GwCaptureErrors \cup {GwNotInitialized}
             /\ UNCHANGED payment_links
             /\ \A i \in Txs :
                   transactions[i].paypal_order_id = reqs'[p].order_id
                   => /\ transactions'[i].status = "FAILED"
                      /\ transactions'[i].metadata = reqs'[p].body]_vars

\* a capture has failed for an order that has a Transaction and a
\* PaymentLink, and has returned its error
C12_Witness ==
    \E p \in Procs : \E i \in Txs :
        /\ reqs[p].kind = "capture_paypal_order"
        /\ reqs[p].pc = "done" /\ reqs[p].code = 500
        /\ transactions[i].paypal_order_id = reqs[p].order_id
        /\ transactions[i].status = "FAILED"
        /\ transactions[i].metadata = reqs[p].body
        /\ LinkOf(i).paypal_order_id = reqs[p].order_id

\* the step is the receipt of a capture request by slot p whose gateway
\* call answers, with the transactions write that follows the answer
SuccessfulCaptureStep(p) ==
    /\ CanStart(p)
    /\ started' = started + 1
    /\ reqs'[p].kind = "capture_paypal_order"
    /\ reqs'[p].pc = "cap_link"

\* C13: when the gateway's capture succeeds, the Transaction of the order
\* takes the gateway's status (COMPLETED) and its capture id, and the
\* PaymentLink named in the request becomes Completed; the caller gets
\* success.
C13_SuccessfulCaptureApplied ==
    [][\A p \in Procs :
          /\ SuccessfulCaptureStep(p)
             => \A i \in Txs :
                   transactions[i].paypal_order_id = reqs'[p].order_id
                   => /\ reqs'[p].gw = "COMPLETED"
                      /\ transactions'[i].status = reqs'[p].gw
                      /\ transactions'[i].paypal_capture_id # NoCapture
          /\ CaptureLinkStep(p)
             => /\ reqs'[p].code = 200
                /\ \A l \in Links :
                      payment_links[l].id = reqs[p].payment_id
                      => payment_links'[l].status = "Completed"]_vars

\* a capture of an order for the link that owns its Transaction has
\* returned success and both documents carry its result
C13_Witness ==
    \E p \in Procs : \E i \in Txs :
        /\ reqs[p].kind = "capture_paypal_order"
        /\ reqs[p].pc = "done" /\ reqs[p].code = 200
        /\ transactions[i].paypal_order_id = reqs[p].order_id
        /\ transactions[i].payment_link_id = reqs[p].payment_id
        /\ transactions[i].status = "COMPLETED"
        /\ transactions[i].paypal_capture_id # NoCapture
        /\ transactions[i].metadata = ""
        /\ LinkOf(i).status = "Completed"

\* the Transaction i of the order that slot p captures carries the cause of
\* an earlier capture that timed out
RetryAfterTimeout(p, i) ==
    /\ transactions[i].paypal_order_id = reqs'[p].order_id
    /\ transactions[i].metadata = "timeout"

\* C14: a capture whose gateway call times out sets the Transaction to
\* FAILED with cause "timeout" (not CREATED), leaves every PaymentLink as it
\* is and returns to the caller; a later capture of the same order that
\* succeeds completes the Transaction and the PaymentLink.
C14_TimeoutThenRetry ==
    [][\A p \in Procs : \A i \in Txs :
          /\ (/\ FailedCaptureStep(p)
              /\ reqs'[p].body = "timeout"
              /\ transactions[i].paypal_order_id = reqs'[p].order_id)
             => /\ transactions'[i].status = "FAILED"
                /\ transactions'[i].metadata = "timeout"
                /\ UNCHANGED payment_links
                /\ reqs'[p].pc = "done"
          /\ (SuccessfulCaptureStep(p) /\ RetryAfterTimeout(p, i))
             => transactions'[i].status = "COMPLETED"
          /\ (/\ CaptureLinkStep(p)
              /\ RetryAfterTimeout(p, i)
              /\ transactions[i].payment_link_id = reqs[p].payment_id)
             => /\ LinkOf(i)'.status = "Completed"
                /\ reqs'[p].code = 200]_vars

\* a capture retried after a timeout has succeeded: the Transaction still
\* carries the cause of the timeout and is COMPLETED with a capture id, and
\* its PaymentLink is Completed
C14_Witness ==
    \E p \in Procs : \E i \in Txs :
        /\ reqs[p].kind = "capture_paypal_order"
        /\ reqs[p].pc = "done" /\ reqs[p].code = 200
        /\ transactions[i].paypal_order_id = reqs[p].order_id
        /\ transactions[i].payment_link_id = reqs[p].payment_id
        /\ transactions[i].metadata = "timeout"
        /\ transactions[i].status = "COMPLETED"
        /\ transactions[i].paypal_capture_id # NoCapture
        /\ LinkOf(i).status = "Completed"

\* the step is the payment_links read of a webhook
WebhookFindStep(p) ==
    reqs[p].pc = "wh_find" /\ reqs'[p].pc \in {"wh_link", "wh_mark"}

\* slot p serves a webhook of this type whose order id is that of
\* Transaction i
WebhookFor(p, event_type, i) ==
    /\ reqs[p].kind = "paypal_webhook"
    /\ reqs[p].event_type = event_type
    /\ reqs[p].order_id = transactions[i].paypal_order_id

\* C15: a PAYMENT.CAPTURE.COMPLETED webhook whose order id has a matching
\* Transaction sets that Transaction to COMPLETED with a completion time,
\* and sets to Completed the PaymentLink that owns the Transaction, the one
\* its payment_link_id names.
C15_CompletedWebhookApplied ==
    [][\A p \in Procs : \A i \in Txs :
          WebhookFor(p, EvCompleted, i)
          => /\ WebhookTxStep(p)
                => /\ transactions'[i].status = "COMPLETED"
                   /\ transactions'[i].completed_at # NoTime
             /\ WebhookFindStep(p)
                => /\ reqs'[p].pc = "wh_link"
                   /\ reqs'[p].found = transactions[i].payment_link_id
             /\ WebhookLinkStep(p)
                => LinkOf(i)'.status = "Completed"]_vars

\* C16: a PAYMENT.CAPTURE.DENIED webhook whose order id has a matching
\* Transaction sets that Transaction to DENIED, and sets to Failed the
\* PaymentLink that owns the Transaction.
C16_DeniedWebhookApplied ==
    [][\A p \in Procs : \A i \in Txs :
          WebhookFor(p, EvDenied, i)
          => /\ WebhookTxStep(p)
                => transactions'[i].status = "DENIED"
             /\ WebhookFindStep(p)
                => /\ reqs'[p].pc = "wh_link"
                   /\ reqs'[p].found = transactions[i].payment_link_id
             /\ WebhookLinkStep(p)
                => LinkOf(i)'.status = "Failed"]_vars

\* the step is one of the handler of slot p, which serves (or starts to
\* serve) a webhook of this type that parsed
WebhookStepOf(p, event_type) ==
    /\ reqs'[p] # reqs[p]
    /\ reqs'[p].kind = "paypal_webhook"
    /\ reqs'[p].event_type = event_type

\* C17: a webhook whose event type is neither PAYMENT.CAPTURE.COMPLETED nor
\* PAYMENT.CAPTURE.DENIED is stored as a WebhookLog, and no step of its
\* handler changes a Transaction or a PaymentLink.
C17_OtherEventTypeIsNoOp ==
    [][\A p \in Procs :
          WebhookStepOf(p, EvOther)
          => /\ UNCHANGED <<payment_links, transactions>>
             /\ FindOne(webhook_logs', "id", reqs'[p].log_id) # 0]_vars

\* a webhook of another type that names the order of a stored Transaction
\* and PaymentLink has been handled to the end
C17_Witness ==
    \E p \in Procs : \E i \in Txs :
        /\ reqs[p].kind = "paypal_webhook"
        /\ reqs[p].event_type = EvOther
        /\ reqs[p].pc = "done" /\ reqs[p].body = "success"
        /\ reqs[p].order_id = transactions[i].paypal_order_id
        /\ LinkOf(i).paypal_order_id = reqs[p].order_id
        /\ transactions[i].status = "CREATED"
        /\ LinkOf(i).status = "Pending"
        /\ webhook_logs[reqs[p].log_id].processed

\* no Transaction carries the order id that the delivery served by slot p
\* names, the delivery naming no order included
NoMatchingTransaction(p) ==
    FindOne(transactions, "paypal_order_id", reqs'[p].order_id) = 0

\* C18: a COMPLETED or DENIED webhook from which no order id can be
\* extracted, or whose order id matches no Transaction, changes no
\* Transaction and no PaymentLink and is answered without an error.
C18_UnmatchedWebhookIsNoOp ==
    [][\A p \in Procs :
          (/\ WebhookStepOf(p, EvCompleted) \/ WebhookStepOf(p, EvDenied)
           /\ NoMatchingTransaction(p))
          => /\ UNCHANGED <<payment_links, transactions>>
             /\ reqs'[p].pc = "done" => reqs'[p].code = 200]_vars

\* slot p is past the gateway call of a create order request: the body it
\* sent and the result it received are in hand
OrderCreated(p) ==
    /\ reqs[p].kind = "create_paypal_order"
    /\ reqs[p].pc \in {"co_link", "co_insert"}

\* the currency the gateway is asked to charge, as the specification has it
ChargedCurrency(currency) == IF currency = "Rs" THEN "USD" ELSE currency

\* C19: create order for a link in currency "Rs" submits "USD" to the
\* gateway, returns "USD" as the order's currency and records "USD" on the
\* Transaction; for any other currency the three equal the link's currency.
C19_CurrencySubstitutionRecorded ==
    /\ \A p \in Procs :
          OrderCreated(p)
          => LET currency == payment_links[reqs[p].payment_id].currency IN
             /\ reqs[p].request_body.currency_code = ChargedCurrency(currency)
             /\ reqs[p].order_result.currency = ChargedCurrency(currency)
    /\ \A i \in Txs :
          transactions[i].currency = ChargedCurrency(LinkOf(i).currency)

DigitChars == {"0", "1", "2", "3", "4", "5", "6", "7", "8", "9"}

\* only digits and at most one '.'
Canonical(str) ==
    /\ \A k \in 1..Len(str) : str[k] \in DigitChars \cup {"."}
    /\ Cardinality({k \in 1..Len(str) : str[k] = "."}) <= 1

\* C20: the amount create order submits is the link's amount in canonical
\* form: only digits and at most one '.', whichever of '.' and ',' is the
\* decimal separator and whatever separates the thousands; "1 234,56" and
\* "1234.56" both give "1234.56"; normalizing the result again changes
\* nothing.
C20_AmountNormalizedCanonical ==
    \A p \in Procs :
        OrderCreated(p)
        => LET amount == payment_links[reqs[p].payment_id].amount
               value == reqs[p].request_body.value
           IN /\ Canonical(value)
              /\ amount \in {<<"1", " ", "2", "3", "4", ",", "5", "6">>,
                             <<"1", "2", "3", "4", ".", "5", "6">>}
                 => value = <<"1", "2", "3", "4", ".", "5", "6">>
              /\ amount_normalized(value) = value

\* ---------------------------------------------------------------------
\* The service started without gateway credentials.
\* PayPalService.__init__ leaves self.client = None and returns; the store
\* is the one an earlier, configured run of the service left behind.

\* PayPalService.is_initialized
is_initialized == client

\* GET /paypal/order/{order_id}: PayPalService.get_order, nothing stored
get_paypal_order(p, order_id) ==
    /\ CanStart(p)
    /\ started' = started + 1
    /\ LET r == [Idle EXCEPT !.kind = "get_paypal_order",
                             !.order_id = order_id]
       IN reqs' = Begin(p,
            IF ~client THEN Done(r, 500, GwNotInitialized)
            ELSE IF order_id \in 1..(gw_next - 1) THEN Done(r, 200, "order")
            ELSE Done(r, 500, "Failed to get PayPal order"))
    /\ UNCHANGED <<payment_links, transactions, webhook_logs, client,
                   gw_next, gw_captured>>

InitNoCredentials ==
    /\ \E n \in 1..MaxLinks : \E script \in SeedScripts(n) :
          /\ payment_links = SeedStore(n, script).payment_links
          /\ transactions = SeedStore(n, script).transactions
          /\ gw_next = Len(script) + 1
    /\ started = 0
    /\ webhook_logs = <<>>
    /\ client = FALSE
    /\ gw_captured = {}
    /\ reqs = [p \in Procs |-> Idle]

NextNoCredentials ==
    \E p \in Procs :
        \/ \E i \in CreateOrderRequests : create_paypal_order(p, i[1], i[2])
        \/ \E order_id \in OrderIdInputs : get_paypal_order(p, order_id)
        \/ \E i \in CaptureRequests :
                capture_paypal_order(p, i[1], i[2], i[3])

SpecNoCredentials == InitNoCredentials /\ [][NextNoCredentials]_vars

\* the step receives a request that needs the gateway
GatewayRequestStep(p) ==
    /\ CanStart(p)
    /\ started' = started + 1
    /\ reqs'[p].kind \in {"create_paypal_order", "get_paypal_order",
                          "capture_paypal_order"}

\* C21: without gateway credentials the service is constructed and is not
\* initialized, and every createOrder, getOrder and captureOrder request
\* fails at once: the gateway creates and captures nothing and no
\* PaymentLink or Transaction is modified.
C21_NoCredentialsFailFast ==
    [][\A p \in Procs :
          (~is_initialized /\ GatewayRequestStep(p))
          => /\ reqs'[p].pc = "done"
             /\ reqs'[p].code # 200
             /\ UNCHANGED <<gw_next, gw_captured>>
             /\ UNCHANGED <<payment_links, transactions>>]_vars

\* C22: in every reachable state every stored PaymentLink has one of the
\* statuses Pending, Completed, Failed, Expired.
C22_LinkStatusInEnum ==
    \A i \in Links : payment_links[i].status \in LinkStatusEnum

\* ---------------------------------------------------------------------
\* Captures answered by the gateway with any of its order statuses.
CaptureRequestsAnyStatus ==
    {<<order_id, payment_id, outcome>> \in
        OrderIdInputs \X LinkIdInputs
                      \X (GwCaptureStatuses \cup GwCaptureErrors) :
            outcome \in GwCaptureErrors => payment_id = NoLink}

NextCapture ==
    \E p \in Procs :
        \/ \E i \in CaptureRequestsAnyStatus :
                capture_paypal_order(p, i[1], i[2], i[3])
        \/ capture_link(p)

SpecCapture == Init /\ [][NextCapture]_vars

\* C23: in every reachable state every stored Transaction has one of the
\* statuses CREATED, APPROVED, COMPLETED, FAILED, DENIED, whatever status
\* the gateway answered a capture with.
C23_TransactionStatusInEnum ==
    \A i \in Txs : transactions[i].status \in TxStatusEnum \cup {"DENIED"}

\* ---------------------------------------------------------------------
\* The service without the operator's status override: every route of
\* Next but PUT /payment-links/{id}/status.
NextNoOverride ==
    \E p \in Procs :
        \/ \E authorized \in BOOLEAN : create_payment_link(p, authorized)
        \/ \E i \in CreateOrderRequests : create_paypal_order(p, i[1], i[2])
        \/ create_order_link(p)
        \/ create_order_insert(p)
        \/ \E i \in CaptureRequests :
                capture_paypal_order(p, i[1], i[2], i[3])
        \/ capture_link(p)
        \/ \E i \in WebhookRequests :
                paypal_webhook(p, i[1], i[2], i[3], i[4])
        \/ webhook_tx(p)
        \/ webhook_find(p)
        \/ webhook_link(p)
        \/ webhook_mark(p)
        \/ webhook_except(p)

SpecNoOverride == Init /\ [][NextNoOverride]_vars

\* no request is between two of its steps
NoRequestInFlight == \A p \in Procs : Free(p)

\* some Transaction of link l has one of the statuses
HasTransactionIn(l, statuses) ==
    \E i \in Txs : /\ transactions[i].payment_link_id = payment_links[l].id
                   /\ transactions[i].status \in statuses

\* C24: with no request in flight and no status override applied, a
\* PaymentLink is Completed only if one of its Transactions is COMPLETED,
\* and Failed only if one of its Transactions is DENIED or FAILED.
C24_LinkMirrorsTransaction ==
    NoRequestInFlight
    => \A l \in Links :
          /\ payment_links[l].status = "Completed"
             => HasTransactionIn(l, {"COMPLETED"})
          /\ payment_links[l].status = "Failed"
             => HasTransactionIn(l, {"DENIED", "FAILED"})

\* the step receives a capture request, in slot p, that names a
\* PaymentLink id or an order id for which nothing is stored
DanglingCaptureStep(p) ==
    /\ CanStart(p)
    /\ started' = started + 1
    /\ reqs'[p].kind = "capture_paypal_order"
    /\ \/ FindOne(payment_links, "id", reqs'[p].payment_id) = 0
       \/ FindOne(transactions, "paypal_order_id", reqs'[p].order_id) = 0

\* C25: a capture that names a PaymentLink id or an order id for which no
\* PaymentLink or Transaction is stored is answered NotFound, not with a
\* completed payment, and creates or modifies no record.
C25_DanglingCaptureNotFound ==
    [][\A p \in Procs :
          DanglingCaptureStep(p)
          => /\ reqs'[p].pc = "done"
             /\ reqs'[p].code = 404
             /\ UNCHANGED <<payment_links, transactions, webhook_logs>>]_vars

\* C26: the status update answers NotFound exactly when no PaymentLink has
\* the given id, and then no record is created or modified; for an existing
\* link that is not Completed or Failed it answers success and the stored
\* status, and the external order reference when one is given, are the
\* requested ones.
C26_SetStatusNotFoundOrApplied ==
    [][\A p \in Procs :
          StatusUpdateStep(p)
          => LET i == FindOne(payment_links, "id", reqs'[p].payment_id)
             IN /\ reqs'[p].pc = "done"
                /\ (reqs'[p].code = 404) <=> (i = 0)
                /\ i = 0 => UNCHANGED <<payment_links, transactions,
                                        webhook_logs>>
                /\ (i # 0 /\ payment_links[i].status \notin LinkTerminal)
                   => /\ reqs'[p].code = 200
                      /\ payment_links'[i].status = reqs'[p].status
                      /\ reqs'[p].order_id # NoOrder
                         => payment_links'[i].paypal_order_id
                              = reqs'[p].order_id]_vars

\* a status update with the order reference of another link's order has
\* been applied to a link and has answered success
C26_Witness ==
    \E p \in Procs : \E i \in Links :
        /\ reqs[p].kind = "update_payment_link_status"
        /\ reqs[p].pc = "done" /\ reqs[p].code = 200
        /\ reqs[p].payment_id = payment_links[i].id
        /\ reqs[p].status = "Expired"
        /\ payment_links[i].status = "Expired"
        /\ reqs[p].order_id # NoOrder
        /\ payment_links[i].paypal_order_id = reqs[p].order_id
        /\ \E j \in Txs :
              /\ transactions[j].paypal_order_id = reqs[p].order_id
              /\ transactions[j].payment_link_id # payment_links[i].id

\* the step serves, in slot p, an operator request that carries no valid
\* credential; the status route declares no credential dependency, so
\* such a request is served like any other
UncredentialedOperatorStep(p) ==
    \/ create_payment_link(p, FALSE)
    \/ \E i \in StatusRequests :
          update_payment_link_status(p, i[1], i[2], i[3])

\* C27: an operator action on PaymentLinks (create, status override) made
\* without a valid operator credential is rejected as Unauthorized and
\* mutates nothing: no PaymentLink is created and no status changes.
C27_OperatorActionsNeedCredential ==
    [][\A p \in Procs :
          UncredentialedOperatorStep(p)
          => /\ reqs'[p].code = 401
             /\ UNCHANGED payment_links]_vars

\* the step is the payment_links write of the create-order request in slot p
CreateOrderLinkStep(p) ==
    reqs[p].pc = "co_link" /\ reqs'[p].pc = "co_insert"

\* the step is the transactions insert and the answer of the create-order
\* request in slot p
CreateOrderInsertStep(p) ==
    reqs[p].pc = "co_insert" /\ reqs'[p].pc = "done"

\* C28: a successful createOrder for a Pending PaymentLink records exactly
\* one new Transaction, with status CREATED, the link's id and the
\* gateway's order id, and sets the link's external-order reference to that
\* order id while leaving the link's status as it was, Pending.
C28_CreateOrderRecordsOneTransaction ==
    [][\A p \in Procs :
          /\ CreateOrderLinkStep(p)
             => LET i == FindOne(payment_links, "id", reqs[p].payment_id) IN
                /\ i # 0
                /\ payment_links'[i].paypal_order_id = reqs[p].order_id
                /\ payment_links'[i].status = payment_links[i].status
                /\ \A l \in Links \ {i} : payment_links'[l] = payment_links[l]
                /\ UNCHANGED transactions
          /\ CreateOrderInsertStep(p)
             => /\ Len(transactions') = Len(transactions) + 1
                /\ SubSeq(transactions', 1, Len(transactions)) = transactions
                /\ transactions'[Len(transactions')].status = "CREATED"
                /\ transactions'[Len(transactions')].payment_link_id
                     = reqs[p].payment_id
                /\ transactions'[Len(transactions')].paypal_order_id
                     = reqs[p].order_id
                /\ reqs[p].order_id \in 1..(gw_next - 1)
                /\ reqs'[p].code = 200
                /\ UNCHANGED payment_links]_vars

\* a create-order request has answered success: its Transaction is stored
\* CREATED and its link, still Pending, carries the order id
C28_Witness ==
    \E p \in Procs : \E i \in Txs :
        /\ reqs[p].kind = "create_paypal_order"
        /\ reqs[p].pc = "done" /\ reqs[p].code = 200
        /\ i = Len(transactions)
        /\ transactions[i].paypal_order_id = reqs[p].order_id
        /\ transactions[i].payment_link_id = reqs[p].payment_id
        /\ transactions[i].status = "CREATED"
        /\ LinkOf(i).paypal_order_id = reqs[p].order_id
        /\ LinkOf(i).status = "Pending"

\* order_id belongs to a Transaction of link l that is not the latest
\* Transaction created against l
EarlierOrder(l, order_id) ==
    \E i \in Txs : \E j \in Txs :
        /\ i < j
        /\ transactions[i].payment_link_id = payment_links[l].id
        /\ transactions[j].payment_link_id = payment_links[l].id
        /\ transactions[i].paypal_order_id = order_id

\* C29: when a PaymentLink has several Transactions, only the latest one
\* created against the still-Pending link is authoritative: the
\* payment_links write of a capture or of a webhook for an earlier
\* Transaction's order id does not change the link's status.
C29_EarlierOrderDoesNotSettleLink ==
    [][\A p \in Procs : \A l \in Links :
          (/\ CaptureLinkStep(p) \/ WebhookLinkStep(p)
           /\ EarlierOrder(l, reqs[p].order_id)
           /\ payment_links[l].status = "Pending")
          => payment_links'[l].status = "Pending"]_vars

\* C30: every operation that mutates a stored PaymentLink (the order
\* reference of createOrder, capture, webhook transition, status update)
\* also advances that link's updated_at: no step changes a field of a
\* PaymentLink and leaves its updated_at as it was.
C30_LinkWriteAdvancesUpdatedAt ==
    [][\A l \in Links :
          payment_links'[l] # payment_links[l]
          => payment_links'[l].updated_at > payment_links[l].updated_at]_vars

\* a link has been written by createOrder and then by a webhook denial,
\* which has answered: its updated_at has advanced twice since creation
C30_Witness ==
    \E p \in Procs : \E l \in Links :
        /\ reqs[p].kind = "paypal_webhook"
        /\ reqs[p].pc = "done" /\ reqs[p].body = "success"
        /\ reqs[p].event_type = EvDenied
        /\ payment_links[l].paypal_order_id = reqs[p].order_id
        /\ payment_links[l].status = "Failed"
        /\ payment_links[l].updated_at >= NoTime + 3

\* C31: in every reachable state no two Transactions whose status is not
\* FAILED have the same external order id, also after concurrent
\* createOrder requests on one PaymentLink.
C31_OrderIdUniqueAmongActive ==
    \A i \in Txs : \A j \in Txs :
        (/\ i # j
         /\ transactions[i].status # "FAILED"
         /\ transactions[j].status # "FAILED")
        => transactions[i].paypal_order_id # transactions[j].paypal_order_id

\* two createOrder requests on one PaymentLink were in flight together and
\* both have answered success: the link has a Transaction from each
C31_Witness ==
    /\ \A p \in Procs :
          /\ reqs[p].kind = "create_paypal_order"
          /\ reqs[p].pc = "done" /\ reqs[p].code = 200
          /\ reqs[p].payment_id = reqs[1].payment_id
          /\ \E i \in Txs :
                /\ transactions[i].paypal_order_id = reqs[p].order_id
                /\ transactions[i].payment_link_id = reqs[p].payment_id
    /\ Len(transactions) = 2

\* every document of the collection is still stored after the step, under
\* the same id and at the same place
Kept(coll, coll_after) ==
    /\ Len(coll_after) >= Len(coll)
    /\ \A i \in 1..Len(coll) : coll_after[i].id = coll[i].id

\* C32: PaymentLink, Transaction and WebhookLog records are never deleted:
\* across every step the stored ids of each collection only grow, and a
\* Transaction's payment-link id and external order id never change after
\* its creation.
C32_RecordsNeverDeleted ==
    [][/\ Kept(payment_links, payment_links')
       /\ Kept(transactions, transactions')
       /\ Kept(webhook_logs, webhook_logs')
       /\ \A i \in Txs :
             /\ transactions'[i].payment_link_id
                  = transactions[i].payment_link_id
             /\ transactions'[i].paypal_order_id
                  = transactions[i].paypal_order_id]_vars

\* each collection has grown or been written since the start: a link was
\* created, a Transaction was inserted and later settled, an event logged
C32_Witness ==
    /\ Len(payment_links) = MaxLinks
    /\ Len(webhook_logs) >= 1
    /\ \E p \in Procs : reqs[p].kind = "create_payment_link"
                        /\ reqs[p].code = 200
    /\ \E i \in Txs : transactions[i].status \in {"COMPLETED", "DENIED"}

\* the capture request in slot p names link l, and the Transaction of its
\* order id belongs to another link
CaptureNamesForeignLink(p, l) ==
    /\ reqs[p].kind = "capture_paypal_order"
    /\ reqs[p].payment_id = payment_links[l].id
    /\ \E i \in Txs :
          /\ transactions[i].paypal_order_id = reqs[p].order_id
          /\ transactions[i].payment_link_id # payment_links[l].id

\* C33: a capture transitions only the PaymentLink that owns the
\* Transaction of its order id: when the request names another link, that
\* link's status is not changed to Completed.
C33_CaptureKeepsForeignLink ==
    [][\A p \in Procs : \A l \in Links :
          (/\ CaptureLinkStep(p)
           /\ CaptureNamesForeignLink(p, l)
           /\ payment_links[l].status # "Completed")
          => payment_links'[l].status # "Completed"]_vars

\* the create-order request in slot p and a COMPLETED or DENIED webhook in
\* slot q for the order p created were in flight together and have both
\* answered success
CreateOrderRacedWebhook(p, q) ==
    /\ reqs[p].kind = "create_paypal_order"
    /\ reqs[p].pc = "done" /\ reqs[p].code = 200
    /\ reqs[q].kind = "paypal_webhook"
    /\ reqs[q].pc = "done" /\ reqs[q].body = "success"
    /\ reqs[q].event_type \in {EvCompleted, EvDenied}
    /\ reqs[q].order_id = reqs[p].order_id

\* C34: createOrder is atomic with respect to a concurrent webhook for the
\* order it creates: once both have finished, the PaymentLink and the
\* Transaction agree (Completed with COMPLETED, Failed with DENIED), and
\* the link is never terminal while the Transaction is still CREATED.
C34_CreateOrderAtomicForWebhook ==
    \A p \in Procs : \A q \in Procs :
        CreateOrderRacedWebhook(p, q)
        => LET l == FindOne(payment_links, "id", reqs[p].payment_id)
               i == FindOne(transactions, "paypal_order_id", reqs[p].order_id)
           IN /\ l # 0 /\ i # 0
              /\ <<payment_links[l].status, transactions[i].status>>
                   \in {<<"Completed", "COMPLETED">>, <<"Failed", "DENIED">>}

\* the step receives, in slot p, a create-order request for a link that
\* does not exist or whose status is not Pending
CreateOrderNotPendingStep(p) ==
    /\ CanStart(p)
    /\ started' = started + 1
    /\ reqs'[p].kind = "create_paypal_order"
    /\ LET i == FindOne(payment_links, "id", reqs'[p].payment_id) IN
       i = 0 \/ payment_links[i].status # "Pending"

\* C35: createOrder is accepted only for a Pending PaymentLink: for a link
\* that is Completed, Failed or Expired, or that does not exist, the
\* request is rejected, the gateway creates no order, no Transaction is
\* created and the link is unchanged.
C35_CreateOrderOnlyForPending ==
    [][\A p \in Procs :
          CreateOrderNotPendingStep(p)
          => /\ reqs'[p].pc = "done"
             /\ reqs'[p].code \in {400, 404}
             /\ UNCHANGED <<gw_next, transactions, payment_links>>]_vars

\* a create-order request for a link that is Completed, Failed or Expired
\* has been rejected
C35_Witness ==
    \E p \in Procs : \E l \in Links :
        /\ reqs[p].kind = "create_paypal_order"
        /\ reqs[p].pc = "done" /\ reqs[p].code = 400
        /\ reqs[p].payment_id = payment_links[l].id
        /\ payment_links[l].status \in {"Completed", "Failed", "Expired"}

\* the step is a whole create-order request for a Pending link served by
\* slot p: the request passes the two checks and the gateway call raises,
\* the only such request that returns in the step that receives it
GatewayFailedCreateStep(p) ==
    /\ CanStart(p)
    /\ started' = started + 1
    /\ reqs'[p].kind = "create_paypal_order"
    /\ reqs'[p].pc = "done"
    /\ LET i == FindOne(payment_links, "id", reqs'[p].payment_id) IN
       i # 0 /\ payment_links[i].status = "Pending"

\* C36: when the gateway fails during createOrder, the caller gets the
\* error, no Transaction is recorded, and the PaymentLink's status and
\* external-order reference are unchanged.
C36_GatewayFailureSurfaced ==
    [][\A p \in Procs :
          GatewayFailedCreateStep(p)
          => /\ reqs'[p].code = 500
             /\ reqs'[p].body = "Failed to create PayPal order"
             /\ UNCHANGED <<transactions, payment_links>>]_vars

\* a create-order request for a Pending link with no order yet has failed
\* at the gateway and has answered its error
C36_Witness ==
    \E p \in Procs : \E l \in Links :
        /\ reqs[p].kind = "create_paypal_order"
        /\ reqs[p].pc = "done" /\ reqs[p].code = 500
        /\ reqs[p].payment_id = payment_links[l].id
        /\ payment_links[l].status = "Pending"
        /\ payment_links[l].paypal_order_id = NoOrder
        /\ transactions = <<>>

\* the step is a write of the webhook handler in slot p
WebhookWriteStep(p) ==
    /\ reqs[p].kind = "paypal_webhook"
    /\ WebhookTxStep(p) \/ WebhookLinkStep(p)

\* C37: a webhook for order id X changes only the Transaction whose
\* external order id is X and the PaymentLink whose external-order
\* reference is X; every other Transaction and PaymentLink is left as it
\* was.
C37_WebhookFrame ==
    [][\A p \in Procs :
          WebhookWriteStep(p)
          => /\ \A i \in Txs :
                   transactions[i].paypal_order_id # reqs[p].order_id
                   => transactions'[i] = transactions[i]
             /\ \A l \in Links :
                   payment_links[l].paypal_order_id # reqs[p].order_id
                   => payment_links'[l] = payment_links[l]
             /\ Len(transactions') = Len(transactions)
             /\ Len(payment_links') = Len(payment_links)]_vars

====
